---- MODULE Spec2Model ----
(***************************************************************************)
(* A model of src/app.py: the bank-statement parser, the classifier loop,  *)
(* the Ledger, the trial balance and the VAT figures of main().            *)
(*                                                                         *)
(* Text is modelled as a sequence of one-character strings, so that        *)
(* str.strip, str.replace, float(), strptime and the regular-expression    *)
(* search of str.contains are computed character by character.  Money is   *)
(* an exact decimal [num, scale] (num * 10^-scale) at the parser and an    *)
(* integer number of cents from the parsed amount onwards; binary          *)
(* floating-point rounding error is not modelled.                          *)
(***************************************************************************)
EXTENDS Integers, Sequences, FiniteSets, TLC

VARIABLES
    uploaded,     \* main: the uploaded file (st.sidebar.file_uploader)
    pc,           \* position in main() / in the driver of a library call
    df,           \* main: the DataFrame df ([columns, rows])
    i,            \* index of the next row of a `for _, r in df.iterrows()` loop
    gl_accounts,  \* classify_transactions: the local list gl_accounts
    responses,    \* the classifier's replies so far ([ok, content]), in call order
    entries,      \* Ledger.entries
    calls,        \* the arguments of the Ledger.post calls made so far, in call order
    exported,     \* [done, rows]: the last result of Ledger.to_dataframe
    tb,           \* the last result of trial_balance, or NoTb
    vat,          \* main: [sales, purchases, vat_out, vat_in, net], or NoVat
    err,          \* the exception raised, or "none"
    token,        \* the argument of to_num
    result        \* the value to_num returned or the error it raised, or NoResult

vars == <<uploaded, pc, df, i, gl_accounts, responses, entries, calls,
          exported, tb, vat, err, token, result>>

(***************************************************************************)
(* Bounds of the model.                                                    *)
(***************************************************************************)
MaxTokenLen == 5    \* longest to_num argument explored on its own
MaxRows == 2        \* most data rows of an uploaded statement
MaxPosts == 3       \* most Ledger.post calls on one free-standing Ledger

(***************************************************************************)
(* Text.                                                                   *)
(***************************************************************************)
\* Python's None, as a cell or argument value.
None == <<"None">>

\* The characters of the model in code-point order.
Chars == <<" ", ",", "-", ".", "/",
           "0", "1", "2", "3", "4", "5", "6", "7", "8", "9",
           "A", "B", "C", "D", "E", "F", "G", "H", "I", "J", "K", "L", "M",
           "N", "O", "P", "Q", "R", "S", "T", "U", "V", "W", "X", "Y", "Z",
           "a", "b", "c", "d", "e", "f", "g", "h", "i", "j", "k", "l", "m",
           "n", "o", "p", "q", "r", "s", "t", "u", "v", "w", "x", "y", "z">>

CodePoint == [c \in {Chars[k] : k \in 1..Len(Chars)} |->
                 CHOOSE k \in 1..Len(Chars) : Chars[k] = c]

Ord(c) == CodePoint[c]

Digits == {"0", "1", "2", "3", "4", "5", "6", "7", "8", "9"}

DigitVal(c) == Ord(c) - Ord("0")

\* str.lower on one character.
LowerCase == [c \in {Chars[k] : k \in 1..Len(Chars)} |->
                 IF Ord(c) >= Ord("A") /\ Ord(c) <= Ord("Z")
                 THEN Chars[Ord(c) - Ord("A") + Ord("a")]
                 ELSE c]

LowerChar(c) == LowerCase[c]

Lower(s) == [k \in 1..Len(s) |-> LowerChar(s[k])]

StartsWith(s, p) == Len(s) >= Len(p) /\ SubSeq(s, 1, Len(p)) = p

\* s.replace(old, ""): every non-overlapping occurrence of old, left to right.
RECURSIVE Remove(_, _)
Remove(s, old) ==
    IF s = <<>> THEN <<>>
    ELSE IF StartsWith(s, old) THEN Remove(SubSeq(s, Len(old) + 1, Len(s)), old)
    ELSE <<s[1]>> \o Remove(Tail(s), old)

\* str.strip(): leading and trailing whitespace removed.
RECURSIVE LStrip(_)
LStrip(s) == IF s # <<>> /\ s[1] = " " THEN LStrip(Tail(s)) ELSE s

RECURSIVE RStrip(_)
RStrip(s) ==
    IF s # <<>> /\ s[Len(s)] = " " THEN RStrip(SubSeq(s, 1, Len(s) - 1)) ELSE s

Strip(s) == RStrip(LStrip(s))

\* The sequences over S of length at most n.
RECURSIVE SeqsUpTo(_, _)
SeqsUpTo(S, n) ==
    IF n = 0 THEN {<<>>}
    ELSE LET shorter == SeqsUpTo(S, n - 1)
         IN shorter \cup {Append(s, c) : s \in {t \in shorter : Len(t) = n - 1}, c \in S}

Pow10(n) == IF n = 0 THEN 1 ELSE IF n = 1 THEN 10 ELSE IF n = 2 THEN 100
            ELSE IF n = 3 THEN 1000 ELSE IF n = 4 THEN 10000 ELSE 100000

\* The number a string of digits denotes.
RECURSIVE DigitsValue(_)
DigitsValue(s) ==
    IF s = <<>> THEN 0
    ELSE 10 * DigitsValue(SubSeq(s, 1, Len(s) - 1)) + DigitVal(s[Len(s)])

(***************************************************************************)
(* float(): a sign, digits and at most one point, with a digit somewhere.  *)
(* (The texts of the model hold no exponent, underscore, "inf" or "nan".)  *)
(***************************************************************************)
Unsigned(s) == IF s # <<>> /\ s[1] \in {"-", "+"} THEN Tail(s) ELSE s

IsFloatLiteral(s) ==
    LET b == Unsigned(s) IN
    /\ \A k \in 1..Len(b) : b[k] \in Digits \cup {"."}
    /\ Cardinality({k \in 1..Len(b) : b[k] = "."}) <= 1
    /\ \E k \in 1..Len(b) : b[k] \in Digits

ValueError == [ok |-> FALSE, num |-> 0, scale |-> 0]

Float(s) ==
    IF ~IsFloatLiteral(s) THEN ValueError
    ELSE LET b == Unsigned(s)
             dot == IF \E k \in 1..Len(b) : b[k] = "."
                    THEN CHOOSE k \in 1..Len(b) : b[k] = "." ELSE Len(b) + 1
             mag == DigitsValue(Remove(b, <<".">>))
         IN [ok |-> TRUE,
             num |-> IF s[1] = "-" THEN -mag ELSE mag,
             scale |-> IF dot > Len(b) THEN 0 ELSE Len(b) - dot]

Zero == [ok |-> TRUE, num |-> 0, scale |-> 0]

\* to_num not called yet.
NoResult == [ok |-> FALSE, num |-> -1, scale |-> -1]

to_num(x) ==
    IF x = None \/ x = <<>> THEN Zero
    ELSE Float(Remove(Remove(Remove(Remove(x, <<" ">>), <<",">>), <<"R">>),
                      <<"Z", "A", "R">>))

(***************************************************************************)
(* datetime.strptime(s, "%d/%m/%Y"): one or two digits of day, of month,   *)
(* exactly four of year, nothing else, and a date of the calendar.         *)
(***************************************************************************)
AllDigits(s) == \A k \in 1..Len(s) : s[k] \in Digits

IsLeap(y) == (y % 4 = 0 /\ y % 100 # 0) \/ y % 400 = 0

DaysInMonth(y, m) ==
    IF m = 2 THEN (IF IsLeap(y) THEN 29 ELSE 28)
    ELSE IF m \in {4, 6, 9, 11} THEN 30 ELSE 31

NoDate == [ok |-> FALSE, year |-> 0, month |-> 0, day |-> 0]

Strptime(s) ==
    LET slashes == {k \in 1..Len(s) : s[k] = "/"} IN
    IF Cardinality(slashes) # 2 THEN NoDate
    ELSE LET a == CHOOSE k \in slashes : \A j \in slashes : k <= j
             b == CHOOSE k \in slashes : \A j \in slashes : k >= j
             dd == SubSeq(s, 1, a - 1)
             mm == SubSeq(s, a + 1, b - 1)
             yy == SubSeq(s, b + 1, Len(s))
         IN IF /\ AllDigits(dd) /\ Len(dd) \in {1, 2}
               /\ AllDigits(mm) /\ Len(mm) \in {1, 2}
               /\ AllDigits(yy) /\ Len(yy) = 4
               /\ DigitsValue(yy) >= 1
               /\ DigitsValue(mm) \in 1..12
               /\ DigitsValue(dd) \in 1..DaysInMonth(DigitsValue(yy), DigitsValue(mm))
            THEN [ok |-> TRUE, year |-> DigitsValue(yy), month |-> DigitsValue(mm),
                  day |-> DigitsValue(dd)]
            ELSE NoDate

Datetime(p) == [year |-> p.year, month |-> p.month, day |-> p.day]

(***************************************************************************)
(* DataFrames: [columns, rows], every row a sequence of cells aligned with *)
(* the columns.                                                            *)
(***************************************************************************)
ColDate == <<"D", "a", "t", "e">>
ColDescription == <<"D", "e", "s", "c", "r", "i", "p", "t", "i", "o", "n">>
ColAmount == <<"A", "m", "o", "u", "n", "t">>
ColGLAccount == <<"G", "L", " ", "A", "c", "c", "o", "u", "n", "t">>

EmptyFrame == [columns |-> <<>>, rows |-> <<>>]

\* The positions of the columns called name, in column order.
RECURSIVE Positions(_, _, _)
Positions(columns, name, k) ==
    IF k > Len(columns) THEN <<>>
    ELSE (IF columns[k] = name THEN <<k>> ELSE <<>>) \o Positions(columns, name, k + 1)

\* df[[k1, k2, ...]]: for each key in turn, every column of that name.
RECURSIVE Indexer(_, _)
Indexer(columns, keys) ==
    IF keys = <<>> THEN <<>>
    ELSE Positions(columns, keys[1], 1) \o Indexer(columns, Tail(keys))

Take(frame, idx) ==
    [columns |-> [k \in 1..Len(idx) |-> frame.columns[idx[k]]],
     rows |-> [r \in 1..Len(frame.rows) |->
                  [k \in 1..Len(idx) |-> frame.rows[r][idx[k]]]]]

\* r[name] for a row r of iterrows: the cell, or for a repeated column name
\* the Series of the cells, in column order.
Cell(columns, row, name) ==
    LET at == Positions(columns, name, 1) IN
    IF Len(at) = 1 THEN row[at[1]] ELSE [k \in 1..Len(at) |-> row[at[k]]]

IsSeries(columns, name) == Len(Positions(columns, name, 1)) # 1

(***************************************************************************)
(* parse_bank_statement.                                                   *)
(***************************************************************************)
\* An exact decimal with at most two decimals, in cents.
Cents(v) == v.num * Pow10(2 - v.scale)

NoRecord == <<>>

\* One pass of the body of `for row in table[1:]` (lines 34-49):
\* [err, skip, record].
ParseRow(row, headers) ==
    IF row = headers THEN [err |-> "none", skip |-> TRUE, record |-> NoRecord]
    ELSE IF Len(row) = 0 THEN [err |-> "IndexError", skip |-> TRUE, record |-> NoRecord]
    ELSE IF row[1] = None
         THEN [err |-> "AttributeError", skip |-> TRUE, record |-> NoRecord]
    ELSE LET dt == Strptime(Strip(row[1])) IN
         IF ~dt.ok THEN [err |-> "none", skip |-> TRUE, record |-> NoRecord]
         ELSE LET desc == IF Len(row) > 2 THEN row[3] ELSE <<>>
                  money_in == IF Len(row) > 3 THEN to_num(row[4]) ELSE Zero
                  money_out == IF Len(row) > 4 THEN to_num(row[5]) ELSE Zero
              IN IF ~money_in.ok \/ ~money_out.ok
                 THEN [err |-> "ValueError: float", skip |-> TRUE, record |-> NoRecord]
                 ELSE [err |-> "none", skip |-> FALSE,
                       record |-> <<Datetime(dt), desc,
                                    Cents(money_in) - Cents(money_out)>>]

\* The loop over the rows of one table, appending to records.
RECURSIVE ParseRows(_, _, _)
ParseRows(rows, headers, records) ==
    IF rows = <<>> THEN [err |-> "none", records |-> records]
    ELSE LET r == ParseRow(rows[1], headers) IN
         IF r.err # "none" THEN [err |-> r.err, records |-> records]
         ELSE ParseRows(Tail(rows), headers,
                        IF r.skip THEN records ELSE Append(records, r.record))

\* page.extract_table() of a page without a table.
NoTable == <<>>

\* The loop over pdf.pages (lines 28-49).
RECURSIVE ParsePages(_, _)
ParsePages(pages, records) ==
    IF pages = <<>> THEN [err |-> "none", records |-> records]
    ELSE IF pages[1] = NoTable THEN ParsePages(Tail(pages), records)
    ELSE LET r == ParseRows(Tail(pages[1]), pages[1][1], records) IN
         IF r.err # "none" THEN r ELSE ParsePages(Tail(pages), r.records)

\* pd.DataFrame(records): a list without records makes a frame without columns.
RecordsFrame(records) ==
    IF records = <<>> THEN EmptyFrame
    ELSE [columns |-> <<ColDate, ColDescription, ColAmount>>, rows |-> records]

\* pd.to_datetime(text, dayfirst=True) on a day/month/year text.
ToDatetime(cell) == Strptime(Strip(cell))

Raised(e) == [err |-> e, df |-> EmptyFrame]

\* Lines 54-59 on the frame either branch built; parsed says that the Date
\* cells are datetimes already (the PDF branch).
Canonical(frame, parsed) ==
    LET stripped == [k \in 1..Len(frame.columns) |-> Strip(frame.columns[k])] IN
    IF Len(stripped) < 3
    THEN Raised("ValueError: Statement must have Date, Description, Amount columns.")
    ELSE LET columns == <<ColDate, ColDescription, ColAmount>>
                            \o SubSeq(stripped, 4, Len(stripped))
             dates == [r \in 1..Len(frame.rows) |-> ToDatetime(frame.rows[r][1])]
         IN IF IsSeries(columns, ColDate) THEN Raised("ValueError: to_datetime")
            ELSE IF ~parsed /\ \E r \in 1..Len(dates) : ~dates[r].ok
                 THEN Raised("ValueError: to_datetime")
            ELSE LET converted ==
                         [columns |-> columns,
                          rows |-> [r \in 1..Len(frame.rows) |->
                                      IF parsed THEN frame.rows[r]
                                      ELSE [frame.rows[r] EXCEPT ![1] = Datetime(dates[r])]]]
                 IN [err |-> "none",
                     df |-> Take(converted,
                                 Indexer(columns, <<ColDate, ColDescription, ColAmount>>))]

DotPdf == <<".", "p", "d", "f">>

EndsWith(s, p) == Len(s) >= Len(p) /\ SubSeq(s, Len(s) - Len(p) + 1, Len(s)) = p

parse_bank_statement(file) ==
    IF EndsWith(Lower(file.name), DotPdf)
    THEN LET r == ParsePages(file.pages, <<>>) IN
         IF r.err # "none" THEN Raised(r.err)
         ELSE Canonical(RecordsFrame(r.records), TRUE)
    ELSE Canonical([columns |-> file.columns, rows |-> file.rows], FALSE)

(***************************************************************************)
(* classify_transactions: the reply of the chat-completion call is an      *)
(* input; the call may raise.                                              *)
(***************************************************************************)
ClassifierReplies ==
    {<<" ", "S", "a", "l", "e", "s", " ">>,
     <<"R", "E", "V", "E", "N", "U", "E">>,
     <<"P", "u", "r", "c", "h", "a", "s", "e", "s">>}

\* df["GL Account"] = gl_accounts, on a frame without that column.
WithColumn(frame, name, values) ==
    [columns |-> Append(frame.columns, name),
     rows |-> [r \in 1..Len(frame.rows) |-> Append(frame.rows[r], values[r])]]

(***************************************************************************)
(* Ledger.                                                                 *)
(***************************************************************************)
Entry(date, account, debit, credit, narrative) ==
    [Date |-> date, Account |-> account, Debit |-> debit, Credit |-> credit,
     Narrative |-> narrative]

\* A post that keeps an entry already present only once.
post_once(es, date, account, debit, credit, narrative) ==
    IF \E k \in 1..Len(es) : es[k] = Entry(date, account, debit, credit, narrative)
    THEN es
    ELSE Append(es, Entry(date, account, debit, credit, narrative))

\* Ledger.post on the list self.entries.
post(es, date, account, debit, credit, narrative) ==
    Append(es, Entry(date, account, debit, credit, narrative))

\* Ledger.to_dataframe: the entries as rows, in list order.
to_dataframe(es) == es

(***************************************************************************)
(* trial_balance.                                                          *)
(***************************************************************************)
\* Python's order of str: by code point, a proper prefix first.
RECURSIVE Less(_, _)
Less(a, b) ==
    IF b = <<>> THEN FALSE
    ELSE IF a = <<>> THEN TRUE
    ELSE IF a[1] # b[1] THEN Ord(a[1]) < Ord(b[1])
    ELSE Less(Tail(a), Tail(b))

\* The keys of a groupby in its (sorted) output order.
RECURSIVE SortedKeys(_)
SortedKeys(S) ==
    IF S = {} THEN <<>>
    ELSE LET least == CHOOSE a \in S : \A b \in S : a = b \/ Less(a, b)
         IN <<least>> \o SortedKeys(S \ {least})

RECURSIVE SumField(_, _)
SumField(rows, field) ==
    IF rows = <<>> THEN 0 ELSE rows[1][field] + SumField(Tail(rows), field)

Group(frame, account) == SelectSeq(frame, LAMBDA e : e.Account = account)

\* The frame trial_balance returns for a ledger with entries.
trial_balance(es) ==
    LET frame == to_dataframe(es)
        keys == SortedKeys({frame[k].Account : k \in 1..Len(frame)})
        agg == [k \in 1..Len(keys) |->
                   [Account |-> keys[k],
                    Debit |-> SumField(Group(frame, keys[k]), "Debit"),
                    Credit |-> SumField(Group(frame, keys[k]), "Credit")]]
    IN [k \in 1..Len(agg) |->
           [Account |-> agg[k].Account, Debit |-> agg[k].Debit,
            Credit |-> agg[k].Credit, Balance |-> agg[k].Debit - agg[k].Credit]]

(***************************************************************************)
(* VAT.                                                                    *)
(***************************************************************************)
\* VAT_RATE = 0.15, in hundredths.
VAT_RATE == 15

\* n / d rounded to the nearest integer, a tie to the even one (round()).
RoundDiv(n, d) ==
    LET q == n \div d
        r == n - q * d
    IN IF 2 * r < d THEN q
       ELSE IF 2 * r > d THEN q + 1
       ELSE IF q % 2 = 0 THEN q ELSE q + 1

\* The tax added to a net amount, not the tax held in a gross one.
calculate_vat_on_net(amount) == RoundDiv(amount * VAT_RATE, 100)

\* round(amount * VAT_RATE / (1 + VAT_RATE), 2), amount and result in cents.
calculate_vat(amount) == RoundDiv(amount * VAT_RATE, 100 + VAT_RATE)

\* Series.str.contains("a|b", case=False) on one value: some alternative
\* occurs somewhere in it, letter case ignored.
Contains(s, alternatives) ==
    \E a \in alternatives : \E k \in 1..(Len(s) - Len(a) + 1) :
        Lower(SubSeq(s, k, k + Len(a) - 1)) = Lower(a)

SalesPattern == {<<"S", "a", "l", "e", "s">>, <<"R", "e", "v", "e", "n", "u", "e">>}
PurchasesPattern == {<<"E", "x", "p", "e", "n", "s", "e", "s">>,
                     <<"P", "u", "r", "c", "h", "a", "s", "e", "s">>}

\* Lines 141-147 of main on the trial balance t.
vat_figures(t) ==
    LET sales == SumField(SelectSeq(t, LAMBDA row : Contains(row.Account, SalesPattern)),
                          "Balance")
        purchases == SumField(SelectSeq(t, LAMBDA row :
                                            Contains(row.Account, PurchasesPattern)),
                              "Balance")
        vat_out == calculate_vat(sales)
        vat_in == calculate_vat(purchases)
    IN [sales |-> sales, purchases |-> purchases, vat_out |-> vat_out,
        vat_in |-> vat_in, net |-> vat_out - vat_in]

NoVat == [sales |-> 0, purchases |-> 0, vat_out |-> 0, vat_in |-> 0, net |-> 0]
NoTb == <<>>
NotExported == [done |-> FALSE, rows |-> <<>>]

(***************************************************************************)
(* The uploaded files of the model.                                        *)
(***************************************************************************)
Header == <<ColDate, <<"R", "e", "f">>, ColDescription, <<"I", "n">>, <<"O", "u", "t">>>>

RowSale == <<<<"1", "5", "/", "0", "1", "/", "2", "0", "2", "4">>, <<"1">>,
             <<"S", "a", "l", "e", " ", "A">>,
             <<"R", "1", ",", "0", "0", "0", ".", "0", "0">>, <<>>>>
RowRent == <<<<"1", "6", "/", "1", "/", "2", "0", "2", "4">>, <<"2">>,
             <<"R", "e", "n", "t">>, None, <<"5", "0", "0", ".", "0", "0">>>>
RowFee == <<<<" ", "2", "9", "/", "0", "2", "/", "2", "0", "2", "4", " ">>, <<"3">>,
            <<"F", "e", "e">>>>
RowIsoDate == <<<<"2", "0", "2", "4", "-", "0", "1", "-", "1", "5">>, <<"4">>,
                <<"x">>, <<"1">>, <<>>>>
RowEmptyDate == <<<<>>, <<"6">>, <<"x">>, <<"1">>, <<>>>>
RowMissingDate == <<None, <<"7">>, <<"x">>, <<"1">>, <<>>>>
RowZAR == <<<<"1", "8", "/", "0", "1", "/", "2", "0", "2", "4">>, <<"8">>,
            <<"T", "a", "x">>, <<"Z", "A", "R", "1", "1", "5">>, <<>>>>

PdfRows == {Header, RowSale, RowRent, RowFee, RowIsoDate,
            RowEmptyDate, RowMissingDate, RowZAR}

\* The tables of a page: none, or the header row and up to MaxRows more rows.
Tables == {NoTable} \cup {<<Header>> \o rs : rs \in SeqsUpTo(PdfRows, MaxRows)}

\* What a second page holds.
SecondPages == {NoTable, <<RowSale, Header, RowRent>>}

PdfDocs == {<<>>} \cup {<<t>> : t \in Tables} \cup {<<t, u>> : t \in Tables, u \in SecondPages}

PdfName == <<"s", ".", "P", "D", "F">>
XlsxName == <<"s", ".", "x", "l", "s", "x">>

PdfFiles ==
    {[name |-> PdfName, pages |-> d, columns |-> <<>>, rows |-> <<>>] :
        d \in PdfDocs}

\* The sheets: a header row of up to four columns as read_excel names them,
\* and rows of a day-first date text, a description, an amount in cents and
\* one more cell.
SheetColumns == <<<<" ", "D", "a", "y">>, <<"D", "e", "t", "a", "i", "l", "s">>,
                  <<"V", "a", "l", "u", "e", " ">>>>
ExtraColumns == {<<"B", "a", "l", "a", "n", "c", "e">>, <<" ", "A", "m", "o", "u", "n", "t">>,
                 ColDate, ColDescription}
SheetHeaders ==
    {SubSeq(SheetColumns, 1, k) : k \in 0..3} \cup {Append(SheetColumns, x) : x \in ExtraColumns}

SheetRows ==
    {<<<<"1", "5", "/", "0", "1", "/", "2", "0", "2", "4">>, <<"S", "a", "l", "e", " ", "A">>,
       100000, 7>>,
     <<<<"1", "6", "/", "1", "/", "2", "0", "2", "4">>, <<"R", "e", "n", "t">>, -50000, 7>>,
     <<<<"1", "7", "/", "0", "1", "/", "2", "0", "2", "4">>, <<"F", "e", "e">>, 0, 7>>,
     <<<<"s", "o", "o", "n">>, <<"x">>, 11500, 7>>}

XlsxFiles ==
    {[name |-> XlsxName, pages |-> <<>>, columns |-> h,
      rows |-> [r \in 1..Len(rs) |-> SubSeq(rs[r], 1, Len(h))]] :
        h \in SheetHeaders, rs \in SeqsUpTo(SheetRows, MaxRows)}

\* file_uploader without a file.
NoFile == [name |-> <<>>, pages |-> <<>>, columns |-> <<>>, rows |-> <<>>]

(***************************************************************************)
(* main(): one run of the script.                                          *)
(***************************************************************************)
Init ==
    /\ uploaded \in PdfFiles \cup XlsxFiles \cup {NoFile}
    /\ pc = "start"
    /\ df = EmptyFrame
    /\ i = 0
    /\ gl_accounts = <<>>
    /\ responses = <<>>
    /\ entries = <<>>
    /\ calls = <<>>
    /\ exported = NotExported
    /\ tb = NoTb
    /\ vat = NoVat
    /\ err = "none"
    /\ token = None
    /\ result = NoResult

\* Lines 97-98: nothing uploaded.
NoUpload ==
    /\ pc = "start" /\ uploaded = NoFile
    /\ pc' = "done"
    /\ UNCHANGED <<uploaded, df, i, gl_accounts, responses, entries, calls,
                   exported, tb, vat, err, token, result>>

\* Lines 100-106: parse, or report the error and return.
Parse ==
    /\ pc = "start" /\ uploaded # NoFile
    /\ LET r == parse_bank_statement(uploaded) IN
         IF r.err = "none"
         THEN df' = r.df /\ pc' = "parsed" /\ err' = err
         ELSE df' = df /\ pc' = "stopped" /\ err' = r.err
    /\ UNCHANGED <<uploaded, i, gl_accounts, responses, entries, calls,
                   exported, tb, vat, token, result>>

\* Line 108: st.button("Classify via AI") returns whether it was clicked.
Button ==
    /\ pc = "parsed"
    /\ \E clicked \in BOOLEAN :
         IF clicked
         THEN pc' = "classify" /\ i' = 1 /\ gl_accounts' = <<>>
         ELSE pc' = "done" /\ i' = i /\ gl_accounts' = gl_accounts
    /\ UNCHANGED <<uploaded, df, responses, entries, calls, exported, tb, vat,
                   err, token, result>>

\* Lines 63-71: one pass of the loop; the call returns a reply or raises, and
\* nothing catches what it raises.
ClassifyCall ==
    /\ pc = "classify" /\ i <= Len(df.rows)
    /\ \/ \E reply \in ClassifierReplies :
            /\ gl_accounts' = Append(gl_accounts, Strip(reply))
            /\ responses' = Append(responses, [ok |-> TRUE, content |-> reply])
            /\ i' = i + 1
            /\ UNCHANGED <<pc, err>>
       \/ /\ responses' = Append(responses, [ok |-> FALSE, content |-> <<>>])
          /\ gl_accounts' = <<>>
          /\ pc' = "crashed"
          /\ err' = "ClassifierError"
          /\ i' = i
    /\ UNCHANGED <<uploaded, df, entries, calls, exported, tb, vat, token, result>>

\* Lines 72-73 and 114: the labels become a column, and main makes its Ledger.
ClassifyReturn ==
    /\ pc = "classify" /\ i > Len(df.rows)
    /\ df' = WithColumn(df, ColGLAccount, gl_accounts)
    /\ entries' = <<>>
    /\ pc' = "post"
    /\ i' = 1
    /\ UNCHANGED <<uploaded, gl_accounts, responses, calls, exported, tb, vat,
                   err, token, result>>

\* A posting loop that posts a contra entry to a bank account as well.
PostRowWithContra ==
    /\ pc = "post" /\ i <= Len(df.rows)
    /\ ~IsSeries(df.columns, ColAmount)
    /\ LET r == df.rows[i]
           amt == Cell(df.columns, r, ColAmount)
           date == Cell(df.columns, r, ColDate)
           account == Cell(df.columns, r, ColGLAccount)
           narrative == Cell(df.columns, r, ColDescription)
           bank == <<"B", "a", "n", "k">>
       IN IF amt >= 0
          THEN entries' = post(post(entries, date, account, amt, 0, narrative),
                               date, bank, 0, amt, narrative)
          ELSE entries' = post(post(entries, date, account, 0, -amt, narrative),
                               date, bank, -amt, 0, narrative)
    /\ i' = i + 1
    /\ UNCHANGED <<uploaded, pc, df, gl_accounts, responses, calls, exported, tb, vat,
                   err, token, result>>

\* A posting loop that posts every amount as a debit of its magnitude.
PostRowAsDebit ==
    /\ pc = "post" /\ i <= Len(df.rows)
    /\ ~IsSeries(df.columns, ColAmount)
    /\ LET r == df.rows[i]
           amt == Cell(df.columns, r, ColAmount)
       IN entries' = post(entries, Cell(df.columns, r, ColDate),
                          Cell(df.columns, r, ColGLAccount),
                          IF amt >= 0 THEN amt ELSE -amt, 0,
                          Cell(df.columns, r, ColDescription))
    /\ i' = i + 1
    /\ UNCHANGED <<uploaded, pc, df, gl_accounts, responses, calls, exported, tb, vat,
                   err, token, result>>

\* Lines 115-120: one pass of the posting loop.  `if amt >= 0` on a Series
\* (a repeated Amount column) raises.
PostRow ==
    /\ pc = "post" /\ i <= Len(df.rows)
    /\ LET r == df.rows[i]
           amt == Cell(df.columns, r, ColAmount)
           date == Cell(df.columns, r, ColDate)
           account == Cell(df.columns, r, ColGLAccount)
           narrative == Cell(df.columns, r, ColDescription)
       IN IF IsSeries(df.columns, ColAmount)
          THEN /\ pc' = "crashed" /\ err' = "ValueError: truth value of a Series"
               /\ UNCHANGED <<entries, calls, i>>
          ELSE /\ IF amt >= 0
                  THEN /\ entries' = post(entries, date, account, amt, 0, narrative)
                       /\ calls' = Append(calls, <<date, account, amt, 0, narrative>>)
                  ELSE /\ entries' = post(entries, date, account, 0, -amt, narrative)
                       /\ calls' = Append(calls, <<date, account, 0, -amt, narrative>>)
               /\ i' = i + 1
               /\ UNCHANGED <<pc, err>>
    /\ UNCHANGED <<uploaded, df, gl_accounts, responses, exported, tb, vat,
                   token, result>>

\* Lines 122-123: the ledger is exported for display once the loop is over.
ShowLedger ==
    /\ pc = "post" /\ i > Len(df.rows)
    /\ exported' = [done |-> TRUE, rows |-> to_dataframe(entries)]
    /\ pc' = "adj"
    /\ UNCHANGED <<uploaded, df, i, gl_accounts, responses, entries, calls, tb, vat,
                   err, token, result>>

\* Lines 127-135: the adjusting-entry form; its widgets' values are inputs.
AdjDate == [year |-> 2024, month |-> 3, day |-> 31]
AdjAccounts == {<<"B", "a", "n", "k">>,
                <<"O", "f", "f", "i", "c", "e", " ", "e", "x", "p", "e", "n", "s", "e", "s">>}
AdjAmounts == {0, 11500}
AdjNarrative == <<"a", "d", "j">>

Adjust ==
    /\ pc = "adj"
    /\ \/ \E acct \in AdjAccounts, db \in AdjAmounts, cr \in AdjAmounts :
            /\ entries' = post(entries, AdjDate, acct, db, cr, AdjNarrative)
            /\ calls' = Append(calls, <<AdjDate, acct, db, cr, AdjNarrative>>)
       \/ UNCHANGED <<entries, calls>>
    /\ pc' = "tb"
    /\ UNCHANGED <<uploaded, df, i, gl_accounts, responses, exported, tb, vat,
                   err, token, result>>

\* Line 137: a frame of no entries has no "Account" column to group by.
TrialBalance ==
    /\ pc = "tb"
    /\ exported' = [done |-> TRUE, rows |-> to_dataframe(entries)]
    /\ IF entries = <<>>
       THEN pc' = "crashed" /\ err' = "KeyError: 'Account'" /\ tb' = tb
       ELSE pc' = "vat" /\ err' = err /\ tb' = trial_balance(entries)
    /\ UNCHANGED <<uploaded, df, i, gl_accounts, responses, entries, calls, vat,
                   token, result>>

\* Lines 141-147.
Vat ==
    /\ pc = "vat"
    /\ vat' = vat_figures(tb)
    /\ pc' = "done"
    /\ UNCHANGED <<uploaded, df, i, gl_accounts, responses, entries, calls,
                   exported, tb, err, token, result>>

Next ==
    \/ NoUpload
    \/ Parse
    \/ Button
    \/ ClassifyCall
    \/ ClassifyReturn
    \/ PostRow
    \/ ShowLedger
    \/ Adjust
    \/ TrialBalance
    \/ Vat

Spec == Init /\ [][Next]_vars

\* The variables of main at rest.
Idle ==
    /\ uploaded = NoFile /\ df = EmptyFrame /\ i = 0 /\ gl_accounts = <<>>
    /\ responses = <<>> /\ entries = <<>> /\ calls = <<>> /\ exported = NotExported
    /\ tb = NoTb /\ vat = NoVat /\ err = "none"

(***************************************************************************)
(* A Ledger on its own: any calls of post, to_dataframe and trial_balance, *)
(* in any order.  pc names the call that returned last.                    *)
(***************************************************************************)
LedgerDates == {[year |-> 2024, month |-> 1, day |-> 15]}
LedgerAccounts == {<<"S", "a", "l", "e", "s">>, <<"s", "a", "l", "e", "s">>,
                   <<"B", "a", "n", "k">>}
LedgerDebits == {0, 11500}
LedgerCredits == {0, 5000}
LedgerNarratives == {<<"n">>}

LedgerInit ==
    /\ Idle
    /\ pc = "Ledger"
    /\ token = None
    /\ result = NoResult

LedgerPost ==
    /\ pc \in {"Ledger", "post", "to_dataframe", "trial_balance"}
    /\ Len(entries) < MaxPosts
    /\ \E date \in LedgerDates, account \in LedgerAccounts, debit \in LedgerDebits,
          credit \in LedgerCredits, narrative \in LedgerNarratives :
            /\ entries' = post(entries, date, account, debit, credit, narrative)
            /\ calls' = Append(calls, <<date, account, debit, credit, narrative>>)
    /\ pc' = "post"
    /\ UNCHANGED <<uploaded, df, i, gl_accounts, responses, exported, tb, vat,
                   err, token, result>>

LedgerToDataframe ==
    /\ pc \in {"Ledger", "post", "to_dataframe", "trial_balance"}
    /\ exported' = [done |-> TRUE, rows |-> to_dataframe(entries)]
    /\ pc' = "to_dataframe"
    /\ UNCHANGED <<uploaded, df, i, gl_accounts, responses, entries, calls, tb,
                   vat, err, token, result>>

\* trial_balance(ledger); what it raises ends the run.
LedgerTrialBalance ==
    /\ pc \in {"Ledger", "post", "to_dataframe", "trial_balance"}
    /\ exported' = [done |-> TRUE, rows |-> to_dataframe(entries)]
    /\ IF entries = <<>>
       THEN pc' = "crashed" /\ err' = "KeyError: 'Account'" /\ tb' = tb
       ELSE pc' = "trial_balance" /\ err' = err /\ tb' = trial_balance(entries)
    /\ UNCHANGED <<uploaded, df, i, gl_accounts, responses, entries, calls, vat,
                   token, result>>

LedgerNext == LedgerPost \/ LedgerToDataframe \/ LedgerTrialBalance

SpecLedger == LedgerInit /\ [][LedgerNext]_vars

(***************************************************************************)
(* to_num on its own: every token over TokenChars up to MaxTokenLen.       *)
(***************************************************************************)
TokenChars == {"1", "5", ".", ",", " ", "-", "R", "Z", "A"}

\* The arguments of at most n characters, and a missing one.
Tokens(n) == SeqsUpTo(TokenChars, n) \cup {None}

NumInit ==
    /\ Idle
    /\ pc = "to_num"
    /\ token \in Tokens(MaxTokenLen)
    /\ result = NoResult

CallToNum ==
    /\ pc = "to_num"
    /\ result' = to_num(token)
    /\ pc' = "returned"
    /\ UNCHANGED <<uploaded, df, i, gl_accounts, responses, entries, calls,
                   exported, tb, vat, err, token>>

NumNext == CallToNum

SpecToNum == NumInit /\ [][NumNext]_vars

\* The decimal literals of the claim: an optional sign, digits, at most one
\* point with digits on both sides or on one.
IsDecimalLiteral(s) ==
    LET b == IF s # <<>> /\ s[1] = "-" THEN Tail(s) ELSE s
        points == {k \in 1..Len(b) : b[k] = "."}
    IN /\ b # <<>>
       /\ \A k \in 1..Len(b) : k \in points \/ b[k] \in Digits
       /\ Cardinality(points) <= 1
       /\ Cardinality(points) < Len(b)

\* The value of a decimal literal, as the pair of its digits read as one
\* integer and the number of digits after the point.
DecimalValue(s) ==
    LET b == IF s[1] = "-" THEN Tail(s) ELSE s
        frac == IF \E k \in 1..Len(b) : b[k] = "."
                THEN Len(b) - (CHOOSE k \in 1..Len(b) : b[k] = ".") ELSE 0
        mag == DigitsValue(SelectSeq(b, LAMBDA c : c # "."))
    IN [num |-> IF s[1] = "-" THEN -mag ELSE mag, scale |-> frac]

SameNumber(a, b) == a.num * Pow10(b.scale) = b.num * Pow10(a.scale)

\* The currency decorations of the claim: 'R' or 'ZAR' in front of the
\* literal, with or without a space.
Decorations == {<<>>, <<"R">>, <<"R", " ">>, <<"Z", "A", "R">>, <<"Z", "A", "R", " ">>}

Decorated(t) ==
    \E d \in Decorations :
        StartsWith(t, d) /\ IsDecimalLiteral(SubSeq(t, Len(d) + 1, Len(t)))

Undecorated(t) ==
    LET d == CHOOSE d \in Decorations :
                 StartsWith(t, d) /\ IsDecimalLiteral(SubSeq(t, Len(d) + 1, Len(t)))
    IN SubSeq(t, Len(d) + 1, Len(t))

\* C8: to_num returns 0.0 for an empty or missing token, and a decimal literal
\* decorated with 'R' or 'ZAR' (with or without a space) parses to the
\* literal's value.
C8_ToNumParsesDecorated ==
    pc = "returned" =>
        /\ (token = None \/ token = <<>>) => (result.ok /\ result.num = 0)
        /\ (token # None /\ Decorated(token)) =>
               (result.ok /\ SameNumber(result, DecimalValue(Undecorated(token))))

(***************************************************************************)
(* The ledger.                                                             *)
(***************************************************************************)
IsPrefix(a, b) == Len(a) <= Len(b) /\ SubSeq(b, 1, Len(a)) = a

\* The entry a post call is to leave, from the call's arguments.
Posted(c) ==
    [Date |-> c[1], Account |-> c[2], Debit |-> c[3], Credit |-> c[4], Narrative |-> c[5]]

\* C1: every post appends exactly one entry holding its arguments, the export
\* is the posted entries in call order, and the entries before a step are a
\* prefix of the entries after it.
C1_LedgerAppendOnly ==
    /\ [](/\ Len(entries) = Len(calls)
          /\ \A k \in 1..Len(calls) : entries[k] = Posted(calls[k])
          /\ exported.done => IsPrefix(exported.rows, entries))
    /\ [][/\ IsPrefix(entries, entries')
          /\ calls' # calls => Len(entries') = Len(entries) + 1
          /\ pc' = "to_dataframe" => exported'.rows = [k \in 1..Len(calls) |-> Posted(calls[k])]
         ]_vars

\* Three posts, two of them equal, all exported in call order.
C1_DuplicateKept ==
    /\ pc = "to_dataframe"
    /\ Len(entries) = 3
    /\ entries[1] = entries[3]
    /\ entries[1] # entries[2]
    /\ exported.rows = entries

\* Integer sums over a set of positions.
RECURSIVE SumAt(_, _, _)
SumAt(rows, field, at) ==
    IF at = {} THEN 0
    ELSE LET k == CHOOSE k \in at : TRUE
         IN rows[k][field] + SumAt(rows, field, at \ {k})

AllAt(rows) == 1..Len(rows)

\* C3: trial_balance emits exactly one row per distinct account (compared
\* exactly, letter case included) with that account's sums of debit and
\* credit and balance = debit - credit, and the balances sum to the ledger's
\* sum of debit minus its sum of credit; the empty ledger included.
C3_TrialBalanceRows ==
    pc \in {"trial_balance", "crashed"} =>
        /\ err = "none"
        /\ {tb[k].Account : k \in 1..Len(tb)} = {entries[k].Account : k \in 1..Len(entries)}
        /\ \A j, k \in 1..Len(tb) : tb[j].Account = tb[k].Account => j = k
        /\ \A k \in 1..Len(tb) :
             LET own == {e \in 1..Len(entries) : entries[e].Account = tb[k].Account} IN
             /\ tb[k].Debit = SumAt(entries, "Debit", own)
             /\ tb[k].Credit = SumAt(entries, "Credit", own)
             /\ tb[k].Balance = tb[k].Debit - tb[k].Credit
        /\ SumAt(tb, "Balance", AllAt(tb))
             = SumAt(entries, "Debit", AllAt(entries)) - SumAt(entries, "Credit", AllAt(entries))

(***************************************************************************)
(* The pipeline.                                                           *)
(***************************************************************************)
Abs(x) == IF x < 0 THEN -x ELSE x

\* The frame holds labeled transactions: date, description, amount, label.
Labeled == df.columns = <<ColDate, ColDescription, ColAmount, ColGLAccount>>

\* The number of rows the posting loop has posted.
PostedRows ==
    IF pc = "post" THEN i - 1
    ELSE IF pc \in {"adj", "tb", "vat", "done"} THEN Len(df.rows)
    ELSE 0

\* C2: the posting loop leaves one entry per labeled transaction, in order,
\* with the transaction's date, label and description, debit = amount for an
\* amount >= 0 and credit = -amount for an amount < 0, the other side 0, and
\* no further entry for any transaction.
C2_OneEntryPerTransaction ==
    Labeled =>
        /\ pc \in {"post", "adj"} => Len(entries) = PostedRows
        /\ pc \in {"tb", "vat", "done"} => Len(entries) \in {PostedRows, PostedRows + 1}
        /\ \A k \in 1..PostedRows :
             LET r == df.rows[k] IN
             /\ entries[k].Date = r[1]
             /\ entries[k].Narrative = r[2]
             /\ entries[k].Account = r[4]
             /\ r[3] >= 0 => entries[k].Debit = r[3] /\ entries[k].Credit = 0
             /\ r[3] < 0 => entries[k].Credit = -r[3] /\ entries[k].Debit = 0

\* Two transactions posted, an inflow and an outflow, and the loop is over.
C2_BothSidesPosted ==
    /\ Labeled
    /\ pc = "adj"
    /\ Len(df.rows) = 2
    /\ df.rows[1][3] > 0 /\ df.rows[2][3] < 0
    /\ Len(entries) = 2

\* C4: every entry of the ledger has exactly one of debit and credit non-zero,
\* and neither negative.
C4_SingleSided ==
    \A k \in 1..Len(entries) :
        /\ entries[k].Debit >= 0
        /\ entries[k].Credit >= 0
        /\ (entries[k].Debit # 0) # (entries[k].Credit # 0)

\* C5 as stated: the entry of a parsed transaction has
\* debit - credit = abs(amount).
C5_DebitMinusCreditIsAbs ==
    Labeled =>
        \A k \in 1..PostedRows : entries[k].Debit - entries[k].Credit = Abs(df.rows[k][3])

\* C5 as amended: the entry of a parsed transaction has
\* debit - credit = amount (the signed amount) and debit + credit = abs(amount).
C5_DebitMinusCreditIsAmount ==
    Labeled =>
        \A k \in 1..PostedRows :
            /\ entries[k].Debit - entries[k].Credit = df.rows[k][3]
            /\ entries[k].Debit + entries[k].Credit = Abs(df.rows[k][3])

\* An outflow has been posted.
C5_OutflowPosted ==
    /\ Labeled
    /\ \E k \in 1..PostedRows : df.rows[k][3] < 0 /\ entries[k].Credit > 0

\* Two characters equal up to letter case.
SameLetter(c, d) ==
    \/ c = d
    \/ /\ Ord(c) >= Ord("A") /\ Ord(c) <= Ord("Z") /\ Ord(d) = Ord(c) + Ord("a") - Ord("A")
    \/ /\ Ord(d) >= Ord("A") /\ Ord(d) <= Ord("Z") /\ Ord(c) = Ord(d) + Ord("a") - Ord("A")

\* The word occurs in the name, letter case ignored.
Mentions(name, word) ==
    \E from \in 0..(Len(name) - Len(word)) :
        \A k \in 1..Len(word) : SameLetter(name[from + k], word[k])

WordSales == <<"S", "a", "l", "e", "s">>
WordRevenue == <<"R", "e", "v", "e", "n", "u", "e">>
WordExpenses == <<"E", "x", "p", "e", "n", "s", "e", "s">>
WordPurchases == <<"P", "u", "r", "c", "h", "a", "s", "e", "s">>

\* v is a * 15 / 115 rounded to the nearest cent.
IsVatOf(v, a) == 2 * Abs(115 * v - 15 * a) <= 115

\* C6: outputVat = calculateVat(sales), inputVat = calculateVat(purchases) and
\* netVatDue = outputVat - inputVat, sales and purchases the sums of balance
\* over the rows naming Sales or Revenue, and Expenses or Purchases, in any
\* letter case, and calculateVat(a) = a * 15 / 115 rounded to 2 decimals, with
\* calculateVat(115) = 15.00, calculateVat(0) = 0.00, calculateVat(-115) = -15.00.
C6_VatFigures ==
    /\ calculate_vat(11500) = 1500
    /\ calculate_vat(0) = 0
    /\ calculate_vat(-11500) = -1500
    /\ (pc = "done" /\ tb # NoTb) =>
         LET sales == SumAt(tb, "Balance",
                            {k \in 1..Len(tb) : \/ Mentions(tb[k].Account, WordSales)
                                                \/ Mentions(tb[k].Account, WordRevenue)})
             purchases == SumAt(tb, "Balance",
                                {k \in 1..Len(tb) : \/ Mentions(tb[k].Account, WordExpenses)
                                                    \/ Mentions(tb[k].Account, WordPurchases)})
         IN /\ vat.sales = sales
            /\ vat.purchases = purchases
            /\ IsVatOf(vat.vat_out, sales)
            /\ IsVatOf(vat.vat_in, purchases)
            /\ vat.net = vat.vat_out - vat.vat_in

\* Sales of 1000.00 and purchases of -500.00: 130.43, -65.22 and 195.65.
C6_ScenarioFigures ==
    /\ pc = "done"
    /\ Len(tb) = 2
    /\ vat = [sales |-> 100000, purchases |-> -50000, vat_out |-> 13043,
              vat_in |-> -6522, net |-> 19565]

\* C7: the labels come back in the order of the transactions, and every
\* transaction whose classifier call succeeded has its label in the result,
\* whatever happened to the other calls.
C7_FailureIsolated ==
    /\ ColGLAccount \in {df.columns[k] : k \in 1..Len(df.columns)} =>
         \A k \in 1..Len(df.rows) :
             Cell(df.columns, df.rows[k], ColGLAccount) = Strip(responses[k].content)
    /\ pc = "crashed" /\ err = "ClassifierError" =>
         \A k \in 1..Len(responses) :
             responses[k].ok =>
                 /\ k <= Len(gl_accounts)
                 /\ gl_accounts[k] = Strip(responses[k].content)

(***************************************************************************)
(* The parser.                                                             *)
(***************************************************************************)
IsPdf == EndsWith(Lower(uploaded.name), DotPdf)

\* The rows of the document after each table's header row, in source order.
RECURSIVE BodyRows(_)
BodyRows(pages) ==
    IF pages = <<>> THEN <<>>
    ELSE (IF pages[1] = NoTable THEN <<>>
          ELSE SelectSeq(Tail(pages[1]), LAMBDA row : row # pages[1][1]))
         \o BodyRows(Tail(pages))

HasDate(row) == row # <<>> /\ row[1] # None /\ Strptime(Strip(row[1])).ok

\* The amount cells of the rows that carry a date are numbers to_num reads.
AmountsReadable ==
    \A k \in 1..Len(BodyRows(uploaded.pages)) :
        LET row == BodyRows(uploaded.pages)[k] IN
        HasDate(row) =>
            /\ Len(row) > 3 => to_num(row[4]).ok
            /\ Len(row) > 4 => to_num(row[5]).ok

\* C9: on a PDF, a row after the header whose date cell is missing, empty or
\* not a day/month/year date is left out without parse_bank_statement
\* raising, even when every row is such a row; the other rows come out in
\* source order, rows equal to their table's header skipped.
C9_PdfDropsUndatedRows ==
    (/\ IsPdf /\ pc \in {"parsed", "stopped"} /\ AmountsReadable
     /\ \E k \in 1..Len(BodyRows(uploaded.pages)) : ~HasDate(BodyRows(uploaded.pages)[k])) =>
        LET kept == SelectSeq(BodyRows(uploaded.pages), HasDate) IN
        /\ pc = "parsed"
        /\ Len(df.rows) = Len(kept)
        /\ \A k \in 1..Len(kept) :
             /\ df.rows[k][1] = Datetime(Strptime(Strip(kept[k][1])))
             /\ df.rows[k][2] = (IF Len(kept[k]) > 2 THEN kept[k][3] ELSE <<>>)

SchemaError == "ValueError: Statement must have Date, Description, Amount columns."

\* C10: a sheet of fewer than 3 columns fails with the schema error and no
\* transactions; after a parsing error nothing is classified or posted; a
\* sheet of 3 or more columns does not raise the schema error and its output
\* has exactly the fields Date, Description, Amount, from its first three
\* columns.
C10_SheetSchema ==
    /\ pc = "stopped" => (df.rows = <<>> /\ responses = <<>> /\ entries = <<>>)
    /\ (uploaded # NoFile /\ ~IsPdf /\ pc # "start") =>
         /\ Len(uploaded.columns) < 3 => (pc = "stopped" /\ err = SchemaError)
         /\ Len(uploaded.columns) >= 3 => err # SchemaError
         /\ (Len(uploaded.columns) >= 3 /\ pc = "parsed") =>
              /\ df.columns = <<ColDate, ColDescription, ColAmount>>
              /\ Len(df.rows) = Len(uploaded.rows)
              /\ \A k \in 1..Len(df.rows) :
                   /\ df.rows[k][1] = Datetime(Strptime(uploaded.rows[k][1]))
                   /\ df.rows[k][2] = uploaded.rows[k][2]
                   /\ df.rows[k][3] = uploaded.rows[k][3]

====
